---- MODULE Spec2Model ----
(***************************************************************************)
(* A model of the bloom crate: the parameter calculator, the hash deriver  *)
(* and BloomFilter (src/src/lib.rs), the scaling chain DynamicBloom        *)
(* (src/src/dynamic.rs), the bounded deque BoundedVecDeque                 *)
(* (src/src/queue.rs) and the slice sequence AgeFilter (src/src/age.rs).   *)
(*                                                                         *)
(* Conventions.                                                            *)
(*  - A call that panics leaves the receiver as it was and sets panicked;   *)
(*    the panic ends the program, so no call follows it.                   *)
(*  - A result that may panic is a record [ok |-> FALSE] or                *)
(*    [ok |-> TRUE, val |-> v].                                            *)
(*  - An f64 probability that is an INPUT (the configured fp) is carried   *)
(*    in percent (5 is 0.05).  An f64 probability that is COMPARED (the    *)
(*    value of fp()) is carried as its natural logarithm in units of 1e-6, *)
(*    rounded up; exp is strictly increasing, so the order of two          *)
(*    probabilities is the order of their logarithms.                      *)
(*  - u64 hash words are WordBits wide instead of 64, and HASH_PRIME is    *)
(*    the largest prime that fits that width, as the source's is for u64.  *)
(*  - Option<T> is a sequence of length 0 (None) or 1 (Some).              *)
(***************************************************************************)
EXTENDS Integers, Sequences, FiniteSets, TLC

VARIABLES
    spooky,     \* the SpookyHash function: item -> [lo, hi], the two u64 halves
    mmr3,       \* the Murmur3 function: item -> [lo, hi]
    bloom,      \* SpecBloom: Option<BloomFilter>, the filter under test
    added,      \* SpecBloom: history, the items add was called with
    a,          \* SpecDyn: the chain a (a DynamicBloom)
    b,          \* SpecDyn: Option<DynamicBloom>, the chain b until extend consumes it
    addedA,     \* SpecDyn: history, the items a must report
    addedB,     \* SpecDyn: history, the items added to b
    extended,   \* SpecDyn: history, a.extend(b) has returned normally
    q,          \* SpecQueue: the BoundedVecDeque under test
    af,         \* SpecAge: the AgeFilter
    now,        \* SpecAge: the monotonic clock Instant::now() reads
    checked,    \* SpecAge: the build traps integer overflow (debug) or wraps (release)
    ageBloom,   \* SpecAgeBloom: the AgeBloom
    addedAge,   \* SpecAgeBloom: history, the items add was called with
    op,         \* the last call: its name, arguments and return value
    panicked    \* the last call panicked

hashVars == <<spooky, mmr3>>
bloomVars == <<bloom, added>>
dynVars == <<a, b, addedA, addedB, extended>>
queueVars == <<q>>
ageVars == <<af, now, checked>>
ageBloomVars == <<ageBloom, addedAge>>
vars == <<spooky, mmr3, bloom, added, a, b, addedA, addedB, extended, q, af, now,
          checked, ageBloom, addedAge, op, panicked>>

-----------------------------------------------------------------------------
(* Bounds of the model *)

\* width of a hash word (u64 in the source)
WordBits == 8
\* largest hash count k given to with_parameters
MaxK == 5
\* largest size in bytes given to with_parameters
MaxSize == 2
\* most add calls on the plain filter
MaxStored == 3
\* most add calls on the chain a, and on the chain b
MaxAdds == 18
MaxAddsB == 2
\* a chain of more partitions than this gets no further add
MaxParts == 3
\* how far above the capacity asked for an allocation of std may be
CapSlack == 1
\* largest bound given to BoundedVecDeque::new, and the longest queue followed
MaxBound == 2
MaxLen == 3
\* largest num_hash and batches given to AgeFilter::new
MaxHash == 2
MaxBatches == 2
\* most slices above optimal_slices, and the last instant of the clock
MaxExtra == 3
MaxClock == 2
\* most add calls on the AgeBloom
MaxAgeAdds == 3

Items == {"x", "y"}
\* the item written to single filters of an AgeBloom
QueryItem == "x"
\* the elements pushed into the queue under test
QueueItems == {1, 2}
Word == 2 ^ WordBits
HashVals == {0, 3, Word - 1}
\* configured false-positive rates, in percent
FpSet == {0, 1, 5, 50, 100, 200}
ExpectedSet == {0, 1, 2, 16}
\* the parameters of the chains: a alone, and a with b
GrowExpected == {1, 2, 16}
DynExpected == {1, 2}
DynFp == {5, 50}

-----------------------------------------------------------------------------
(* Arithmetic *)

Panic == [ok |-> FALSE]
Ok(v) == [ok |-> TRUE, val |-> v]

Max(x, y) == IF x >= y THEN x ELSE y
Min(x, y) == IF x <= y THEN x ELSE y

\* floor and ceiling of n / d for d > 0
FloorDiv(n, d) == n \div d
CeilDiv(n, d) == -((-n) \div d)

\* `x as usize` / `x as u64` of an f64: saturating, so a negative value is 0
AsUnsigned(x) == IF x < 0 THEN 0 ELSE x

wrapping_add(x, y) == (x + y) % Word
wrapping_mul(x, y) == (x * y) % Word

IsPrime(p) == p >= 2 /\ \A d \in 2..(p - 1) : p % d # 0
HASH_PRIME == CHOOSE p \in 2..(Word - 1) : IsPrime(p) /\ \A r \in (p + 1)..(Word - 1) : ~IsPrime(r)

\* f64::ln of a rate given in percent, in units of 1e-6
Ln(fp) ==
    CASE fp = 1 -> -4605170
      [] fp = 5 -> -2995732
      [] fp = 10 -> -2302585
      [] fp = 50 -> -693147
      [] fp = 100 -> 0
      [] fp = 200 -> 693147
\* 2f64.ln() and 2f64.ln() * 2f64.ln(), in units of 1e-6
LN2 == 693147
LN2SQ == 480453
Micro == 10 ^ 6

-----------------------------------------------------------------------------
(* Parameter calculator *)

calculate_size_from_fp_capacity(fp, expected) ==
    IF fp = 0 \/ expected = 0 THEN Panic
    ELSE LET bits == CeilDiv(expected * (-Ln(fp)), LN2SQ)
             bytes == CeilDiv(bits, 8)
         IN  Ok(AsUnsigned(bytes))

\* mutant: the ratio capacity / bits in place of bits / capacity
calculate_fp_inverted(bytes, capacity) ==
    LET bits == bytes * 8
    IN  IF bits = 0 \/ capacity = 0 THEN Panic
        ELSE Ok(CeilDiv(-(capacity * LN2SQ), bits))

calculate_fp_from_capacity_size(bytes, capacity) ==
    LET bits == bytes * 8
    IN  IF bits = 0 \/ capacity = 0 THEN Panic
        ELSE Ok(CeilDiv(-(bits * LN2SQ), capacity))

calculate_capacity_from_fp_size(fp, bytes) ==
    LET bits == bytes * 8
    IN  IF bits = 0 \/ fp = 0 THEN Panic
        ELSE IF Ln(fp) >= 0 THEN Ok(0)
        ELSE Ok(AsUnsigned(FloorDiv(bits * LN2SQ, -Ln(fp))))

calculate_k(bytes, capacity) ==
    LET bits == bytes * 8
    IN  IF bits = 0 \/ capacity = 0 THEN Panic
        ELSE Ok(FloorDiv(2 * LN2 * bits + Micro * capacity, 2 * Micro * capacity))

-----------------------------------------------------------------------------
(* BloomFilter *)

\* BitVec::from_elem(nbits, false)
from_elem(nbits, v) == [i \in 0..(nbits - 1) |-> v]

\* mutant: the assertion capacity > 0 left out
with_parameters_unasserted(size, k, fp) ==
    LET capacity == calculate_capacity_from_fp_size(fp, size)
        nbits == size * 8
    IN  IF ~capacity.ok THEN Panic
        ELSE Ok([array |-> from_elem(nbits, FALSE),
                 size |-> size,
                 k |-> k,
                 capacity |-> capacity.val,
                 fp |-> fp,
                 stored_items |-> 0])

with_parameters(size, k, fp) ==
    LET capacity == calculate_capacity_from_fp_size(fp, size)
        nbits == size * 8
    IN  IF ~capacity.ok THEN Panic
        ELSE IF ~(capacity.val > 0) THEN Panic
        ELSE Ok([array |-> from_elem(nbits, FALSE),
                 size |-> size,
                 k |-> k,
                 capacity |-> capacity.val,
                 fp |-> fp,
                 stored_items |-> 0])

new(size, k, fp) == with_parameters(size, k, fp)

with_fp_size(fp, expected) ==
    LET size == calculate_size_from_fp_capacity(fp, expected)
    IN  IF ~size.ok THEN Panic
        ELSE LET k == calculate_k(size.val, expected)
             IN  IF ~k.ok THEN Panic ELSE new(size.val, k.val, fp)

\* fp(): the natural logarithm, in units of 1e-6, of the rate returned
fp(self) ==
    IF self.stored_items = 0 THEN Ln(self.fp)
    ELSE calculate_fp_from_capacity_size(self.size, self.stored_items).val

capacity(self) == self.capacity
bits(self) == Cardinality(DOMAIN self.array)
\* stored(): called by DynamicBloom::should_resize, not defined in lib.rs
stored(self) == self.stored_items

_mmr3_hash(t) == mmr3[t]
_spooky_hash(t) == spooky[t]

\* the Vec<u64> result, indexed from 1 here and from 0 in the source
compute_hashes(self, item) ==
    LET h1 == _spooky_hash(item)
        h2 == _spooky_hash(item)
        base == <<h1.lo, h1.hi, h2.lo, h2.hi>>
    IN  [n \in 1..Max(4, self.k) |->
            IF n <= 4 THEN base[n]
            ELSE wrapping_add(base[2], wrapping_mul(base[4], n - 1) % HASH_PRIME)]

\* the bit indices add sets and get reads
indices(self, item) ==
    LET hashes == compute_hashes(self, item)
    IN  {hashes[n] % bits(self) : n \in 1..self.k}

\* mutant: the index taken modulo the size in bytes, not the number of bits
BloomFilter_add_mod_size(self, item) ==
    LET hashes == compute_hashes(self, item)
        idx == {hashes[n] % self.size : n \in 1..self.k}
    IN  [self EXCEPT !.array = [i \in DOMAIN self.array |->
                                   IF i \in idx THEN TRUE ELSE self.array[i]],
                     !.stored_items = self.stored_items + 1]

\* mutant: an add that sets no new bit is not counted
BloomFilter_add_counting_new(self, item) ==
    LET array == [i \in DOMAIN self.array |->
                     IF i \in indices(self, item) THEN TRUE ELSE self.array[i]]
    IN  [self EXCEPT !.array = array,
                     !.stored_items = IF array = self.array THEN self.stored_items
                                      ELSE self.stored_items + 1]

BloomFilter_add(self, item) ==
    [self EXCEPT !.array = [i \in DOMAIN self.array |->
                               IF i \in indices(self, item) THEN TRUE ELSE self.array[i]],
                 !.stored_items = self.stored_items + 1]

BloomFilter_get(self, item) ==
    \A i \in indices(self, item) : self.array[i]

-----------------------------------------------------------------------------
(* DynamicBloom: filters is indexed from 1 here, active_idx counts from 0  *)
(* as in the source                                                        *)

DynamicBloom_new(expected, rate) ==
    LET f == with_fp_size(rate, expected)
    IN  IF ~f.ok THEN Panic
        ELSE Ok([filters |-> <<f.val>>,
                 active_idx |-> 0,
                 expected |-> expected,
                 fp |-> rate,
                 inserted |-> 0])

\* filters.iter_mut().nth(active_idx).expect(..): the index counted from 1
get_active(self) ==
    IF self.active_idx + 1 \in DOMAIN self.filters
    THEN Ok(self.active_idx + 1)
    ELSE Panic

\* mutant: > in place of >=
should_resize_late(self) ==
    LET active == self.filters[get_active(self).val]
    IN  IF stored(active) > capacity(active)
        THEN [self EXCEPT !.filters = Append(self.filters,
                                             with_fp_size(self.fp, self.expected).val),
                          !.active_idx = self.active_idx + 1]
        ELSE self

should_resize(self) ==
    LET active == self.filters[get_active(self).val]
    IN  IF stored(active) >= capacity(active)
        THEN [self EXCEPT !.filters = Append(self.filters,
                                             with_fp_size(self.fp, self.expected).val),
                          !.active_idx = self.active_idx + 1]
        ELSE self

\* mutant: the throttle expected * 10 in place of expected / 10
DynamicBloom_add_throttled(self, item) ==
    LET s == IF self.inserted >= self.expected * 10 THEN should_resize(self) ELSE self
        i == get_active(s).val
    IN  [s EXCEPT !.filters[i] = BloomFilter_add(s.filters[i], item),
                  !.inserted = s.inserted + 1]

\* mutant: the throttle compares with < in place of >=
DynamicBloom_add_inverted(self, item) ==
    LET s == IF self.inserted < self.expected \div 10 THEN should_resize(self) ELSE self
        i == get_active(s).val
    IN  [s EXCEPT !.filters[i] = BloomFilter_add(s.filters[i], item),
                  !.inserted = s.inserted + 1]

DynamicBloom_add(self, item) ==
    LET s == IF self.inserted >= self.expected \div 10 THEN should_resize(self) ELSE self
        i == get_active(s).val
    IN  [s EXCEPT !.filters[i] = BloomFilter_add(s.filters[i], item),
                  !.inserted = s.inserted + 1]

\* mutant: only the active partition is asked
DynamicBloom_get_active_only(self, item) ==
    BloomFilter_get(self.filters[get_active(self).val], item)

DynamicBloom_get(self, item) ==
    \E i \in DOMAIN self.filters : BloomFilter_get(self.filters[i], item)

len(self) == Len(self.filters)

assert_fp(self) ==
    ~(\E i \in DOMAIN self.filters : fp(self.filters[i]) > Ln(self.fp))

\* mutant: other's partitions take the place of self's
extend_replacing(self, other) ==
    IF ~(self.expected = other.expected) THEN Panic
    ELSE Ok([self EXCEPT !.filters = other.filters])

\* mutant: the assertion left out
extend_unasserted(self, other) ==
    Ok([self EXCEPT !.filters = self.filters \o other.filters])

extend(self, other) ==
    IF ~(self.expected = other.expected) THEN Panic
    ELSE Ok([self EXCEPT !.filters = self.filters \o other.filters])

-----------------------------------------------------------------------------
(* BoundedVecDeque: inner is the VecDeque's contents, front first; cap is  *)
(* what inner.capacity() returns.  std promises only "space for at least"  *)
(* the capacity asked for, and the amount differs between std versions     *)
(* (with_capacity(0) allocates nothing in one and one slot in another) and *)
(* between element types, so an operation that allocates has a set of      *)
(* outcomes, one per capacity std may choose.                              *)

\* VecDeque::with_capacity(n).capacity(), VecDeque::new() after extend to n
Allocations(n) == n..(n + CapSlack)

\* inner.capacity() after inner grew to n elements
Grown(cap, n) == IF n <= cap THEN {cap} ELSE n..(n + CapSlack)

BoundedVecDeque_new(size) ==
    {[inner |-> <<>>, size |-> size, cap |-> c] : c \in Allocations(size)}

from_iter(iter) ==
    {[inner |-> iter, size |-> Len(iter), cap |-> c] : c \in Allocations(Len(iter))}

BoundedVecDeque_len(self) == Len(self.inner)

\* VecDeque::remove: None when index is out of bounds
remove(self, index) ==
    IF index + 1 \in DOMAIN self.inner
    THEN [self |-> [self EXCEPT !.inner = SubSeq(self.inner, 1, index)
                                          \o SubSeq(self.inner, index + 2, Len(self.inner))],
          ret |-> <<self.inner[index + 1]>>]
    ELSE [self |-> self, ret |-> <<>>]

extend_with(self, item) ==
    {[self EXCEPT !.inner = Append(self.inner, item),
                  !.size = self.size + 1,
                  !.cap = c] : c \in Grown(self.cap, Len(self.inner) + 1)}

is_full(self) == Len(self.inner) = self.size

BoundedVecDeque_capacity(self) == self.cap

pop_front(self) ==
    IF self.inner = <<>> THEN [self |-> self, ret |-> <<>>]
    ELSE [self |-> [self EXCEPT !.inner = Tail(self.inner)], ret |-> <<Head(self.inner)>>]

pop_back(self) ==
    IF self.inner = <<>> THEN [self |-> self, ret |-> <<>>]
    ELSE [self |-> [self EXCEPT !.inner = SubSeq(self.inner, 1, Len(self.inner) - 1)],
          ret |-> <<self.inner[Len(self.inner)]>>]

push_back(self, item) ==
    IF is_full(self) /\ BoundedVecDeque_capacity(self) = 0
    THEN {[self |-> self, ret |-> <<item>>]}
    ELSE LET existing == IF is_full(self) THEN pop_front(self)
                         ELSE [self |-> self, ret |-> <<>>]
             s == existing.self
         IN  {[self |-> [s EXCEPT !.inner = Append(s.inner, item), !.cap = c],
               ret |-> existing.ret] : c \in Grown(s.cap, Len(s.inner) + 1)}

push_front(self, item) ==
    IF is_full(self) /\ BoundedVecDeque_capacity(self) = 0
    THEN {[self |-> self, ret |-> <<item>>]}
    ELSE LET existing == IF is_full(self) THEN pop_back(self)
                         ELSE [self |-> self, ret |-> <<>>]
             s == existing.self
         IN  {[self |-> [s EXCEPT !.inner = <<item>> \o s.inner, !.cap = c],
               ret |-> existing.ret] : c \in Grown(s.cap, Len(s.inner) + 1)}

\* Index::index: panics when index is out of bounds
index(self, i) ==
    IF i + 1 \in DOMAIN self.inner THEN Ok(self.inner[i + 1]) ELSE Panic

-----------------------------------------------------------------------------
(* AgeBloom: filters is indexed from 1 here; active_idx and the indices of *)
(* get_active_idx count from 0 as in the source.  AgeBloom::new gives     *)
(* with_parameters a fourth argument (the position of the filter) that the *)
(* with_parameters of lib.rs does not take; the filter built is that of    *)
(* the first three.                                                        *)

AgeBloom_new(expected, rate) ==
    LET l == 4
        k == 3
        size == calculate_size_from_fp_capacity(rate, expected)
        f == IF size.ok THEN with_parameters(size.val, k, rate) ELSE Panic
    IN  IF ~f.ok THEN Panic
        ELSE Ok([filters |-> [i \in 1..(k + l) |-> f.val],
                 inserted |-> 0,
                 active_idx |-> 0,
                 expected |-> expected,
                 fp |-> rate,
                 k |-> k,
                 l |-> l])

\* the range lo..hi-1 as a sequence
Range(lo, hi) == [n \in 1..Max(hi - lo, 0) |-> lo + n - 1]

\* mutant: the window is one filter short
get_active_idx_short(self) == Range(self.active_idx, self.active_idx + self.k - 1)

get_active_idx(self) ==
    LET length == Len(self.filters)
        to == self.active_idx + self.k - 1
        overflow_to == to % length
    IN  IF to <= length
        THEN Range(self.active_idx, to + 1)
        ELSE Range(self.active_idx, length + 1) \o Range(0, overflow_to)

\* the loop of add over the indices idx[n..]; filters[index] panics when
\* index is out of bounds
RECURSIVE add_loop(_, _, _, _)
add_loop(filters, idx, n, item) ==
    IF n > Len(idx) THEN Ok(filters)
    ELSE IF ~(idx[n] + 1 \in DOMAIN filters) THEN Panic
    ELSE add_loop([filters EXCEPT ![idx[n] + 1] = BloomFilter_add(filters[idx[n] + 1], item)],
                  idx, n + 1, item)

AgeBloom_add(self, item) ==
    LET filters == add_loop(self.filters, get_active_idx(self), 1, item)
    IN  IF ~filters.ok THEN Panic
        ELSE Ok([self EXCEPT !.filters = filters.val, !.inserted = self.inserted + 1])

\* the while loop of get from the values i, p, c on
RECURSIVE get_loop(_, _, _, _, _)
get_loop(self, item, i, p, c) ==
    IF i < 0 THEN Ok(FALSE)
    ELSE IF ~(i + 1 \in DOMAIN self.filters) THEN Panic
    ELSE IF BloomFilter_get(self.filters[i + 1], item)
    THEN IF p + c + 1 = self.k THEN Ok(TRUE)
         ELSE get_loop(self, item, i + 1, p, c + 1)
    ELSE get_loop(self, item, i - self.k, c, 0)

\* the number of times the loop of get reads a filter, from i, p, c on
RECURSIVE get_steps(_, _, _, _, _)
get_steps(self, item, i, p, c) ==
    IF i < 0 THEN 0
    ELSE IF ~(i + 1 \in DOMAIN self.filters) THEN 1
    ELSE IF BloomFilter_get(self.filters[i + 1], item)
    THEN IF p + c + 1 = self.k THEN 1
         ELSE 1 + get_steps(self, item, i + 1, p, c + 1)
    ELSE 1 + get_steps(self, item, i - self.k, c, 0)

\* mutant: the scan starts at the last filter
AgeBloom_get_from_top(self, item) == get_loop(self, item, self.k + self.l - 1, 0, 0)

\* mutant: the scan starts one filter lower
AgeBloom_get_low_start(self, item) == get_loop(self, item, self.l - 1, 0, 0)

AgeBloom_get(self, item) == get_loop(self, item, self.l, 0, 0)

-----------------------------------------------------------------------------
(* AgeFilter: slices is a BoundedVecDeque of Slice.  ts is the value of    *)
(* Instant::now() during the call, trap tells whether the build traps      *)
(* integer overflow (a debug build) or wraps (a release build).            *)

Slice_new(size, hash_index, timestamp) ==
    [size |-> size,
     count |-> 0,
     hash_index |-> hash_index,
     timestamp |-> timestamp,
     data |-> from_elem(size * 8, FALSE)]

\* (slices[1].hash_index - 1 + num_hash) % num_hash in usize arithmetic
next_hash_index(self, trap) ==
    LET head == index(self.slices, 1)
    IN  IF ~head.ok THEN Panic
        ELSE IF head.val.hash_index = 0 /\ trap THEN Panic
        ELSE IF self.num_hash = 0 THEN Panic
        ELSE Ok(wrapping_add((head.val.hash_index - 1 + Word) % Word, self.num_hash)
                    % self.num_hash)

\* the outcomes of shift: [ok |-> FALSE], or [ok |-> TRUE, val |-> the filter]
shift(self, ts, trap) ==
    LET hash_index == next_hash_index(self, trap)
    IN  IF ~hash_index.ok THEN {Panic}
        ELSE {Ok([self EXCEPT !.slices = r.self]) :
                 r \in push_back(self.slices,
                                 Slice_new(index(self.slices, 1).val.size, hash_index.val, ts))}

\* the loop of retire_slices from index i on: the slices left, or a panic
RECURSIVE retire_loop(_, _, _, _, _)
retire_loop(slices, i, removed, last, ts) ==
    IF i >= last THEN Ok(slices)
    ELSE LET s == index(slices, i - removed)
         IN  IF ~s.ok THEN Panic
             ELSE IF s.val.timestamp < ts
             THEN retire_loop(remove(slices, i).self, i + 1, removed + 1, last, ts)
             ELSE Ok(slices)

retire_slices(self, ts, trap) ==
    IF (self.optimal_slices = 0 \/ self.num_slices = 0) /\ trap THEN Panic
    ELSE LET slices == retire_loop(self.slices, (self.optimal_slices - 1 + Word) % Word,
                                   0, (self.num_slices - 1 + Word) % Word, ts)
         IN  IF ~slices.ok THEN Panic
             ELSE Ok([self EXCEPT !.slices = slices.val,
                                  !.num_slices = BoundedVecDeque_len(slices.val)])

\* the outcomes of add_slice
add_slice(self, size, ts, trap) ==
    LET hash_index == next_hash_index(self, trap)
    IN  IF ~hash_index.ok THEN {Panic}
        ELSE {Ok([self EXCEPT !.slices = s, !.num_slices = self.num_slices + 1]) :
                 s \in extend_with(self.slices,
                                   Slice_new(index(self.slices, 1).val.size, hash_index.val, ts))}

\* the outcomes of AgeFilter::new
AgeFilter_new(num_hash, batches, slice_size, ts) ==
    LET optimal_size == batches + num_hash
    IN  IF num_hash = 0 /\ optimal_size > 0 THEN {Panic}
        ELSE {Ok([num_hash |-> num_hash,
                  batches |-> batches,
                  num_slices |-> optimal_size,
                  optimal_slices |-> optimal_size,
                  slices |-> s,
                  error_rate |-> 0,
                  inserts |-> 0,
                  capacity |-> 0,
                  assess_freq |-> 0]) :
                 s \in from_iter([i \in 1..optimal_size |->
                                     Slice_new(slice_size, (i - 1) % num_hash, ts)])}

-----------------------------------------------------------------------------
(* The hash functions, fixed for a run, and the idle values of the parts   *)
(* a specification does not use                                            *)

HashPairs == [lo : HashVals, hi : HashVals]
\* the hash values of the runs with two chains
DynPairs == {[lo |-> 0, hi |-> 3], [lo |-> Word - 1, hi |-> Word - 2]}

InitHashes ==
    /\ spooky \in [Items -> HashPairs]
    /\ mmr3 \in {[t \in Items |-> [lo |-> v, hi |-> Word - 1 - v]] : v \in HashVals}

FixedHashes ==
    /\ spooky = [t \in Items |-> [lo |-> 0, hi |-> 0]]
    /\ mmr3 = [t \in Items |-> [lo |-> 0, hi |-> 0]]

BloomIdle == bloom = <<>> /\ added = {}
DynIdle == a = <<>> /\ b = <<>> /\ addedA = {} /\ addedB = {} /\ extended = FALSE
QueueIdle == q = <<>>
AgeIdle == af = <<>> /\ now = 0 /\ checked = FALSE
AgeBloomIdle == ageBloom = <<>> /\ addedAge = <<>>

-----------------------------------------------------------------------------
(* SpecBloom: one BloomFilter, constructed by either constructor and then  *)
(* modified by add                                                         *)

InitBloom ==
    /\ InitHashes
    /\ bloom = <<>>
    /\ added = {}
    /\ DynIdle /\ QueueIdle /\ AgeIdle /\ AgeBloomIdle
    /\ op = <<"none">>
    /\ panicked = FALSE

\* let f = BloomFilter::with_parameters(size, k, fp)
WithParameters(size, k, rate) ==
    /\ bloom = <<>>
    /\ ~panicked
    /\ LET r == with_parameters(size, k, rate)
       IN  /\ bloom' = IF r.ok THEN <<r.val>> ELSE <<>>
           /\ panicked' = ~r.ok
    /\ op' = <<"with_parameters", size, k, rate>>
    /\ UNCHANGED <<added, hashVars, dynVars, queueVars, ageVars, ageBloomVars>>

\* let f = BloomFilter::with_fp_size(fp, expected)
WithFpSize(rate, expected) ==
    /\ bloom = <<>>
    /\ ~panicked
    /\ LET r == with_fp_size(rate, expected)
       IN  /\ bloom' = IF r.ok THEN <<r.val>> ELSE <<>>
           /\ panicked' = ~r.ok
    /\ op' = <<"with_fp_size", rate, expected>>
    /\ UNCHANGED <<added, hashVars, dynVars, queueVars, ageVars, ageBloomVars>>

\* f.add(item)
Add(item) ==
    /\ bloom # <<>>
    /\ bloom[1].stored_items < MaxStored
    /\ bloom' = <<BloomFilter_add(bloom[1], item)>>
    /\ added' = added \cup {item}
    /\ op' = <<"add", item>>
    /\ panicked' = FALSE
    /\ UNCHANGED <<hashVars, dynVars, queueVars, ageVars, ageBloomVars>>

NextBloom ==
    \/ \E size \in 0..MaxSize, k \in 0..MaxK, rate \in FpSet : WithParameters(size, k, rate)
    \/ \E rate \in FpSet, expected \in ExpectedSet : WithFpSize(rate, expected)
    \/ \E item \in Items : Add(item)

SpecBloom == InitBloom /\ [][NextBloom]_vars

-----------------------------------------------------------------------------
(* Claims about BloomFilter, checked under SpecBloom *)

\* C1: BloomFilter has no false negatives: in every state, whatever the size,
\* the hash count and the adds made since, get(x) is true of every item x that
\* add was called with.
C1_NoFalseNegatives ==
    bloom # <<>> => \A x \in added : BloomFilter_get(bloom[1], x)

\* C1 witness: a filter with k > 4 (the derived hashes are in use) that got both
\* items, which set different bits, the later add after the earlier one.
C1_Witness ==
    /\ bloom # <<>>
    /\ bloom[1].k > 4
    /\ added = Items
    /\ bloom[1].stored_items = MaxStored
    /\ indices(bloom[1], "x") # indices(bloom[1], "y")

\* the capacity the parameters (size, rate) compute is 0
ComputesNoCapacity(size, rate) ==
    /\ size # 0
    /\ rate # 0
    /\ calculate_capacity_from_fp_size(rate, size).val = 0

\* C6: a constructor given fp = 0, expected = 0, size = 0 or parameters whose
\* computed capacity is 0 panics and leaves no filter; every filter that exists
\* has capacity > 0 and size * 8 > 0 bits.
C6_InvalidConstructionFatal ==
    /\ (op[1] = "with_fp_size" /\ (op[2] = 0 \/ op[3] = 0))
            => (panicked /\ bloom = <<>>)
    /\ (op[1] = "with_parameters"
            /\ (op[2] = 0 \/ op[4] = 0 \/ ComputesNoCapacity(op[2], op[4])))
            => (panicked /\ bloom = <<>>)
    /\ bloom # <<>> =>
            /\ capacity(bloom[1]) > 0
            /\ bits(bloom[1]) = bloom[1].size * 8
            /\ bits(bloom[1]) > 0

\* C6 witness: with_parameters has just refused a nonzero size and a rate inside
\* (0, 1) because they compute capacity 0.
C6_Witness ==
    /\ op[1] = "with_parameters"
    /\ panicked
    /\ bloom = <<>>
    /\ op[2] > 0
    /\ op[4] \in {1, 5, 50}
    /\ ComputesNoCapacity(op[2], op[4])

\* the estimate fp() must return for a filter holding n > 0 items:
\* ln of e ^ (-(bits / n) * ln(2)^2)
EstimatedLn(size, n) == CeilDiv(-(size * 8 * LN2SQ), n)

FpSource ==
    bloom # <<>> =>
        /\ bloom[1].stored_items = 0 => fp(bloom[1]) = Ln(bloom[1].fp)
        /\ bloom[1].stored_items > 0 =>
               fp(bloom[1]) = EstimatedLn(bloom[1].size, bloom[1].stored_items)

\* C9 as stated: fp() is the configured rate while the filter is empty and the
\* estimate afterwards, and no add, the first included, lowers fp().
C9_FpNonDecreasing ==
    /\ []FpSource
    /\ [][(\E item \in Items : Add(item)) => fp(bloom'[1]) >= fp(bloom[1])]_vars

\* C9 amended: fp() is the configured rate while the filter is empty and the
\* estimate afterwards; no add on a filter that already holds an item lowers
\* fp(), and the first add never raises it.
C9_FpNonDecreasingAfterFirst ==
    /\ []FpSource
    /\ [][(\E item \in Items : Add(item)) =>
            /\ bloom[1].stored_items >= 1 => fp(bloom'[1]) >= fp(bloom[1])
            /\ bloom[1].stored_items = 0 => fp(bloom'[1]) <= fp(bloom[1])]_vars

\* C9 witness: a filter whose first add lowered fp() below the configured rate
\* and whose later adds raised it above the estimate for one item.
C9_Witness ==
    /\ bloom # <<>>
    /\ bloom[1].stored_items >= 2
    /\ fp(bloom[1]) > EstimatedLn(bloom[1].size, 1)
    /\ EstimatedLn(bloom[1].size, 1) < Ln(bloom[1].fp)

-----------------------------------------------------------------------------
(* SpecGrow: one DynamicBloom, modified only by add.                       *)
(* SpecDyn: two chains a and b, modified by add, and a.extend(b).          *)

InitSpooky ==
    /\ spooky \in [Items -> HashPairs]
    /\ mmr3 = [t \in Items |-> [lo |-> 0, hi |-> 0]]

\* let mut a = DynamicBloom::new(expected, fp)
InitGrow ==
    /\ InitSpooky
    /\ \E expected \in GrowExpected, rate \in DynFp :
           a = DynamicBloom_new(expected, rate).val
    /\ b = <<>>
    /\ addedA = {} /\ addedB = {} /\ extended = FALSE
    /\ BloomIdle /\ QueueIdle /\ AgeIdle /\ AgeBloomIdle
    /\ op = <<"new">>
    /\ panicked = FALSE

\* let mut a = DynamicBloom::new(..); let mut b = DynamicBloom::new(..)
InitDyn ==
    /\ spooky \in [Items -> DynPairs]
    /\ mmr3 = [t \in Items |-> [lo |-> 0, hi |-> 0]]
    /\ \E expected \in DynExpected, rate \in DynFp :
           a = DynamicBloom_new(expected, rate).val
    /\ \E expected \in DynExpected, rate \in DynFp :
           b = <<DynamicBloom_new(expected, rate).val>>
    /\ addedA = {} /\ addedB = {} /\ extended = FALSE
    /\ BloomIdle /\ QueueIdle /\ AgeIdle /\ AgeBloomIdle
    /\ op = <<"new">>
    /\ panicked = FALSE

\* a.add(item)
AddA(item) ==
    /\ ~panicked
    /\ a.inserted < MaxAdds
    /\ len(a) <= MaxParts
    /\ IF get_active(a).ok
       THEN /\ a' = DynamicBloom_add(a, item)
            /\ addedA' = addedA \cup {item}
            /\ panicked' = FALSE
       ELSE /\ panicked' = TRUE
            /\ UNCHANGED <<a, addedA>>
    /\ op' = <<"a.add", item>>
    /\ UNCHANGED <<b, addedB, extended, hashVars, bloomVars, queueVars, ageVars, ageBloomVars>>

\* b.add(item)
AddB(item) ==
    /\ ~panicked
    /\ b # <<>>
    /\ b[1].inserted < MaxAddsB
    /\ IF get_active(b[1]).ok
       THEN /\ b' = <<DynamicBloom_add(b[1], item)>>
            /\ addedB' = addedB \cup {item}
            /\ panicked' = FALSE
       ELSE /\ panicked' = TRUE
            /\ UNCHANGED <<b, addedB>>
    /\ op' = <<"b.add", item>>
    /\ UNCHANGED <<a, addedA, extended, hashVars, bloomVars, queueVars, ageVars, ageBloomVars>>

\* a.extend(b): b is moved into the call, so it is gone afterwards either way
ExtendAB ==
    /\ ~panicked
    /\ b # <<>>
    /\ LET r == extend(a, b[1])
       IN  /\ a' = IF r.ok THEN r.val ELSE a
           /\ addedA' = IF r.ok THEN addedA \cup addedB ELSE addedA
           /\ extended' = r.ok
           /\ panicked' = ~r.ok
    /\ b' = <<>>
    /\ op' = <<"a.extend", a.expected, b[1].expected, len(b[1])>>
    /\ UNCHANGED <<addedB, hashVars, bloomVars, queueVars, ageVars, ageBloomVars>>

NextGrow == \E item \in Items : AddA(item)

NextDyn ==
    \/ \E item \in Items : AddA(item)
    \/ \E item \in Items : AddB(item)
    \/ ExtendAB

SpecGrow == InitGrow /\ [][NextGrow]_vars
SpecDyn == InitDyn /\ [][NextDyn]_vars

-----------------------------------------------------------------------------
(* Claims about DynamicBloom, checked under SpecGrow and SpecDyn *)

\* C2: DynamicBloom has no false negatives: in every state of a chain modified
\* by add, get(x) is true of every item x that add was called with, the adds
\* that appended a partition and moved the active partition included.
C2_NoFalseNegatives ==
    \A x \in addedA : DynamicBloom_get(a, x)

\* C2 witness: a chain that grew, with x reported by the oldest partition only
\* and y by the newest partition only.
C2_Witness ==
    /\ len(a) >= 2
    /\ addedA = Items
    /\ BloomFilter_get(a.filters[1], "x")
    /\ \A i \in 2..len(a) : ~BloomFilter_get(a.filters[i], "x")
    /\ BloomFilter_get(a.filters[len(a)], "y")
    /\ \A i \in 1..(len(a) - 1) : ~BloomFilter_get(a.filters[i], "y")

\* C3: after a.extend(b) on chains of equal expected, a.get(x) is true of every
\* item x added to a or to b before the extend, and of those added to a since.
C3_UnionCorrect ==
    extended => \A x \in addedA : DynamicBloom_get(a, x)

\* C3 witness: after the extend and a later add on a, an item that only b got
\* is reported by a, and by none of the partitions a had built itself.
C3_Witness ==
    /\ extended
    /\ op[1] = "a.add"
    /\ \E x \in addedB :
          /\ DynamicBloom_get(a, x)
          /\ ~BloomFilter_get(a.filters[1], x)
          /\ ~BloomFilter_get(a.filters[len(a)], x)

\* C4: a.extend(b) with a.expected # b.expected panics and merges nothing: a's
\* partitions, active_idx and inserted are as before the call.
C4_IncompatibleUnionFails ==
    [][(ExtendAB /\ a.expected # b[1].expected) =>
          /\ panicked'
          /\ ~extended'
          /\ a'.filters = a.filters
          /\ a'.active_idx = a.active_idx
          /\ a'.inserted = a.inserted]_vars

\* C4 witness: the extend of two populated chains of different expected has
\* panicked.
C4_Witness ==
    /\ op[1] = "a.extend"
    /\ op[2] # op[3]
    /\ panicked
    /\ addedA # {}
    /\ addedB # {}
    /\ len(a) >= 2

\* the chain a has one partition before the first add and
\* ceil(inserted / capacity) partitions afterwards
PartitionCount ==
    LET c == capacity(a.filters[1])
        n == a.inserted
    IN  /\ len(a) = IF n = 0 THEN 1 ELSE CeilDiv(n, c)
        /\ (a.expected = 16 /\ n <= 16) => (c = 16 /\ len(a) = 1)
        /\ (a.expected = 16 /\ n = 17) => len(a) = 2

\* C5: a chain modified only by add has 1 partition on construction and
\* ceil(n / c) partitions after n >= 1 adds (1 after each of the first 16 adds
\* and 2 after the 17th when expected = 16), and an add appends a partition,
\* exactly one, exactly when it finds the active partition holding capacity items.
C5_ScalingGrowth ==
    /\ []PartitionCount
    /\ [][(\E item \in Items : AddA(item)) =>
            LET active == a.filters[a.active_idx + 1]
            IN  len(a') = len(a) + (IF stored(active) = capacity(active) THEN 1 ELSE 0)]_vars

\* C5 witness: the chain of expected = 16 after its 17th add.
C5_Witness ==
    /\ a.expected = 16
    /\ a.inserted = 17
    /\ len(a) = 2
    /\ stored(a.filters[1]) = 16
    /\ stored(a.filters[2]) = 1

\* the rate a partition reports now: the configured one while it is empty,
\* the estimate from its size and its stored items afterwards
CurrentLn(f) ==
    IF f.stored_items = 0 THEN Ln(f.fp) ELSE EstimatedLn(f.size, f.stored_items)

WithinCapacity(chain) ==
    \A i \in DOMAIN chain.filters :
        chain.filters[i].stored_items <= chain.filters[i].capacity

\* C10: on a chain modified only by add (a until it is extended, b always) no
\* partition stores more than its capacity and assert_fp() is true; assert_fp()
\* is false exactly when some partition's current rate is above the target.
C10_AssertFp ==
    /\ ~extended => (WithinCapacity(a) /\ assert_fp(a))
    /\ b # <<>> => (WithinCapacity(b[1]) /\ assert_fp(b[1]))
    /\ assert_fp(a) <=> ~(\E i \in DOMAIN a.filters : CurrentLn(a.filters[i]) > Ln(a.fp))

\* C10 witness: a chain that only add has touched, with every partition but the
\* newest filled to its capacity.
C10_Witness ==
    /\ ~extended
    /\ len(a) >= 3
    /\ \A i \in 1..(len(a) - 1) : stored(a.filters[i]) = capacity(a.filters[i])
    /\ assert_fp(a)

-----------------------------------------------------------------------------
(* SpecQueue: one BoundedVecDeque, built by new and modified by every      *)
(* operation of its interface                                              *)

\* let mut q = BoundedVecDeque::new(size)
InitQueue ==
    /\ \E size \in 0..MaxBound : q \in BoundedVecDeque_new(size)
    /\ FixedHashes /\ BloomIdle /\ DynIdle /\ AgeIdle /\ AgeBloomIdle
    /\ op = <<"new">>
    /\ panicked = FALSE

\* q.push_back(item)
PushBack(item) ==
    /\ Len(q.inner) < MaxLen
    /\ \E r \in push_back(q, item) :
          /\ q' = r.self
          /\ op' = <<"push_back", item, r.ret>>
    /\ UNCHANGED <<panicked, hashVars, bloomVars, dynVars, ageVars, ageBloomVars>>

\* q.push_front(item)
PushFront(item) ==
    /\ Len(q.inner) < MaxLen
    /\ \E r \in push_front(q, item) :
          /\ q' = r.self
          /\ op' = <<"push_front", item, r.ret>>
    /\ UNCHANGED <<panicked, hashVars, bloomVars, dynVars, ageVars, ageBloomVars>>

\* q.pop_front()
PopFront ==
    /\ q' = pop_front(q).self
    /\ op' = <<"pop_front", 0, pop_front(q).ret>>
    /\ UNCHANGED <<panicked, hashVars, bloomVars, dynVars, ageVars, ageBloomVars>>

\* q.pop_back()
PopBack ==
    /\ q' = pop_back(q).self
    /\ op' = <<"pop_back", 0, pop_back(q).ret>>
    /\ UNCHANGED <<panicked, hashVars, bloomVars, dynVars, ageVars, ageBloomVars>>

\* q.remove(i)
Remove(i) ==
    /\ q' = remove(q, i).self
    /\ op' = <<"remove", i, remove(q, i).ret>>
    /\ UNCHANGED <<panicked, hashVars, bloomVars, dynVars, ageVars, ageBloomVars>>

\* q.extend_with(item)
ExtendWith(item) ==
    /\ Len(q.inner) < MaxLen
    /\ q.size < MaxLen
    /\ q' \in extend_with(q, item)
    /\ op' = <<"extend_with", item, <<>>>>
    /\ UNCHANGED <<panicked, hashVars, bloomVars, dynVars, ageVars, ageBloomVars>>

NextQueue ==
    \/ \E item \in QueueItems : PushBack(item)
    \/ \E item \in QueueItems : PushFront(item)
    \/ PopFront
    \/ PopBack
    \/ \E i \in 0..MaxLen : Remove(i)
    \/ \E item \in QueueItems : ExtendWith(item)

SpecQueue == InitQueue /\ [][NextQueue]_vars

-----------------------------------------------------------------------------
(* Claims about BoundedVecDeque, checked under SpecQueue *)

\* what push_back(item) is to do to the queue self, and to return
PushedBack(self, item, after, ret) ==
    IF Len(self.inner) # self.size
    THEN after.inner = Append(self.inner, item) /\ ret = <<>>
    ELSE IF self.size # 0
    THEN /\ after.inner = Append(Tail(self.inner), item)
         /\ ret = <<Head(self.inner)>>
         /\ Len(after.inner) = self.size
    ELSE after.inner = <<>> /\ ret = <<item>>

\* what push_front(item) is to do to the queue self, and to return
PushedFront(self, item, after, ret) ==
    IF Len(self.inner) # self.size
    THEN after.inner = <<item>> \o self.inner /\ ret = <<>>
    ELSE IF self.size # 0
    THEN /\ after.inner = <<item>> \o SubSeq(self.inner, 1, Len(self.inner) - 1)
         /\ ret = <<self.inner[Len(self.inner)]>>
         /\ Len(after.inner) = self.size
    ELSE after.inner = <<>> /\ ret = <<item>>

\* C8: push_back on a queue that is not full appends and returns None; on a
\* full queue of nonzero bound it removes and returns the front and appends, so
\* the length stays the bound (push_front likewise, evicting the back); on a
\* queue of bound zero it returns the item and leaves the queue empty.  Hence
\* the length never exceeds the bound.
C8_OverflowSemantics ==
    /\ [](Len(q.inner) <= q.size)
    /\ [][\A item \in QueueItems :
            /\ PushBack(item) => PushedBack(q, item, q', op'[3])
            /\ PushFront(item) => PushedFront(q, item, q', op'[3])]_vars

-----------------------------------------------------------------------------
(* SpecAge: one AgeFilter, built by new and modified by shift, add_slice   *)
(* and retire_slices while the clock advances                              *)

\* let mut f = AgeFilter::new(num_hash, batches, 1)
InitAge ==
    /\ now = 0
    /\ checked \in BOOLEAN
    /\ \E num_hash \in 1..MaxHash, batches \in 0..MaxBatches :
          \E r \in AgeFilter_new(num_hash, batches, 1, 0) : r.ok /\ af = r.val
    /\ FixedHashes /\ BloomIdle /\ DynIdle /\ QueueIdle /\ AgeBloomIdle
    /\ op = <<"new">>
    /\ panicked = FALSE

\* time passes between two calls
Tick ==
    /\ ~panicked
    /\ now < MaxClock
    /\ now' = now + 1
    /\ UNCHANGED <<af, checked, op, panicked, hashVars, bloomVars, dynVars, queueVars, ageBloomVars>>

\* f.shift()
Shift ==
    /\ ~panicked
    /\ is_full(af.slices) \/ Len(af.slices.inner) < af.optimal_slices + MaxExtra
    /\ \E r \in shift(af, now, checked) :
          /\ af' = IF r.ok THEN r.val ELSE af
          /\ panicked' = ~r.ok
    /\ op' = <<"shift">>
    /\ UNCHANGED <<now, checked, hashVars, bloomVars, dynVars, queueVars, ageBloomVars>>

\* the add_slice calls made, and nothing else, since the filter held exactly
\* optimal_slices slices
ExtraSlices == IF op[1] = "add_slice" THEN op[2] ELSE 0

\* f.add_slice(1)
AddSlice ==
    /\ ~panicked
    /\ Len(af.slices.inner) < af.optimal_slices + MaxExtra
    /\ \E r \in add_slice(af, 1, now, checked) :
          /\ af' = IF r.ok THEN r.val ELSE af
          /\ panicked' = ~r.ok
          /\ op' = <<"add_slice",
                     IF ~r.ok THEN 0
                     ELSE IF Len(af.slices.inner) = af.optimal_slices
                             /\ af.num_slices = af.optimal_slices THEN 1
                     ELSE IF ExtraSlices > 0 THEN ExtraSlices + 1
                     ELSE 0>>
    /\ UNCHANGED <<now, checked, hashVars, bloomVars, dynVars, queueVars, ageBloomVars>>

\* f.retire_slices()
Retire ==
    /\ ~panicked
    /\ LET r == retire_slices(af, now, checked)
       IN  /\ af' = IF r.ok THEN r.val ELSE af
           /\ panicked' = ~r.ok
    /\ op' = <<"retire_slices", ExtraSlices,
               \A n \in DOMAIN af.slices.inner : af.slices.inner[n].timestamp < now>>
    /\ UNCHANGED <<now, checked, hashVars, bloomVars, dynVars, queueVars, ageBloomVars>>

NextAge ==
    \/ Tick
    \/ Shift
    \/ AddSlice
    \/ Retire

SpecAge == InitAge /\ [][NextAge]_vars

-----------------------------------------------------------------------------
(* Claims about AgeFilter, checked under SpecAge *)

\* C7: from a filter of optimal_slices slices, every add_slice call that
\* returns grows the slice sequence and num_slices by exactly one and evicts
\* nothing, and one retire_slices call made once every slice is older than the
\* threshold brings the sequence back to exactly optimal_slices slices, however
\* many slices were added, in every such cycle.
C7_BoundedLength ==
    /\ []((op[1] = "retire_slices" /\ ~panicked /\ op[2] >= 1 /\ op[3]) =>
            /\ Len(af.slices.inner) = af.optimal_slices
            /\ af.num_slices = af.optimal_slices)
    /\ [][(AddSlice /\ ~panicked') =>
            /\ Len(af'.slices.inner) = Len(af.slices.inner) + 1
            /\ SubSeq(af'.slices.inner, 1, Len(af.slices.inner)) = af.slices.inner
            /\ af'.num_slices = af.num_slices + 1]_vars

-----------------------------------------------------------------------------
(* SpecAgeBloom: one AgeBloom, built by new and then used through add and  *)
(* get                                                                     *)

\* let mut f = AgeBloom::new(expected, fp)
InitAgeBloom ==
    /\ spooky \in [Items -> DynPairs]
    /\ mmr3 = [t \in Items |-> [lo |-> 0, hi |-> 0]]
    /\ \E expected \in DynExpected, rate \in DynFp :
          LET f == AgeBloom_new(expected, rate)
          IN  f.ok /\ ageBloom = f.val
    /\ addedAge = <<>>
    /\ BloomIdle /\ DynIdle /\ QueueIdle /\ AgeIdle
    /\ op = <<"new">>
    /\ panicked = FALSE

\* f.add(item)
AgeAdd(item) ==
    /\ ~panicked
    /\ ageBloom.inserted < MaxAgeAdds
    /\ LET r == AgeBloom_add(ageBloom, item)
       IN  /\ ageBloom' = IF r.ok THEN r.val ELSE ageBloom
           /\ addedAge' = IF r.ok THEN Append(addedAge, item) ELSE addedAge
           /\ panicked' = ~r.ok
    /\ op' = <<"add", item>>
    /\ UNCHANGED <<hashVars, bloomVars, dynVars, queueVars, ageVars>>

\* f.get(item)
AgeGet(item) ==
    /\ ~panicked
    /\ LET r == AgeBloom_get(ageBloom, item)
       IN  /\ op' = IF r.ok THEN <<"get", item, r.val>> ELSE <<"get", item>>
           /\ panicked' = ~r.ok
    /\ UNCHANGED <<ageBloomVars, hashVars, bloomVars, dynVars, queueVars, ageVars>>

NextAgeBloom ==
    \/ \E item \in Items : AgeAdd(item)
    \/ \E item \in Items : AgeGet(item)

SpecAgeBloom == InitAgeBloom /\ [][NextAgeBloom]_vars

-----------------------------------------------------------------------------
(* Claims about AgeBloom, checked under SpecAgeBloom *)

\* the filters (counted from 1) outside the window add writes to
Outside(self) ==
    {i \in DOMAIN self.filters :
        \A n \in DOMAIN get_active_idx(self) : get_active_idx(self)[n] + 1 # i}

\* the filter f after the items of the set s were added to it
with_items(f, s) ==
    [f EXCEPT !.array = [i \in DOMAIN f.array |->
                            f.array[i] \/ \E t \in s : i \in indices(f, t)],
              !.stored_items = f.stored_items + Cardinality(s)]

\* self with the filters outside the window holding the items c gives them
WithOutside(self, c) ==
    [self EXCEPT !.filters = [i \in DOMAIN self.filters |->
                                 IF i \in Outside(self)
                                 THEN with_items(self.filters[i], c[i])
                                 ELSE self.filters[i]]]

\* C11: with no rotation or retirement, get(x) returns true for every item x
\* that add was called with, whatever was added before or after x and
\* whatever the filters outside the active window hold (each of them either
\* holds x, and reports it, or holds nothing).
C11_FreshItemFound ==
    /\ \A x \in {addedAge[n] : n \in DOMAIN addedAge} :
          \A c \in [Outside(ageBloom) -> {{}, {x}}] :
             AgeBloom_get(WithOutside(ageBloom, c), x) = Ok(TRUE)
    /\ (op[1] = "get" /\ \E n \in DOMAIN addedAge : addedAge[n] = op[2]) =>
          (~panicked /\ op[3])

\* x was added before another item, and get(x) was then called, on a filter
\* with outside contents that report x and others that do not
C11_Witness ==
    /\ Len(addedAge) >= 2
    /\ addedAge[1] # addedAge[2]
    /\ op = <<"get", addedAge[1], TRUE>>
    /\ \E i \in Outside(ageBloom) :
          /\ ~BloomFilter_get(ageBloom.filters[i], addedAge[1])
          /\ BloomFilter_get(with_items(ageBloom.filters[i], {addedAge[1]}), addedAge[1])

-----------------------------------------------------------------------------
(* Claims about the fields of DynamicBloom, checked under SpecDyn *)

\* the chains alive in a state: a, and b until extend consumes it
Chains == {a} \cup {b[n] : n \in DOMAIN b}

\* C12: in every reachable state, after any sequence of add and extend calls,
\* active_idx is a valid index and is the index of the last partition
\* (filters.len() - 1).
C12_ActiveIsLast ==
    \A chain \in Chains :
        /\ get_active(chain).ok
        /\ chain.active_idx = len(chain) - 1

\* the sum of the stored-item counts of the partitions filters[1..n]
RECURSIVE StoredSum(_, _)
StoredSum(filters, n) ==
    IF n = 0 THEN 0 ELSE StoredSum(filters, n - 1) + stored(filters[n])

\* C13: in every reachable state, after any sequence of add and extend calls,
\* inserted equals the sum of the stored-item counts of the partitions of the
\* chain.
C13_InsertedIsTotal ==
    \A chain \in Chains :
        chain.inserted = StoredSum(chain.filters, len(chain))

\* the partition f has the configuration of a partition the chain creates
BuiltBy(chain, f) ==
    LET own == with_fp_size(chain.fp, chain.expected)
    IN  /\ own.ok
        /\ f.fp = own.val.fp
        /\ f.size = own.val.size
        /\ f.k = own.val.k
        /\ f.capacity = own.val.capacity

\* C14: in every reachable state, after any sequence of add and extend calls
\* that did not fail, every partition of a chain has the configured fp, size,
\* hash count and capacity of a partition the chain itself would create.
C14_SharedTarget ==
    \A chain \in Chains :
        \A i \in DOMAIN chain.filters : BuiltBy(chain, chain.filters[i])

-----------------------------------------------------------------------------
(* Claims about the throttle of DynamicBloom::add, checked under SpecGrow *)

\* the reference chain's add: the saturation check made on every call
DynamicBloom_add_reference(self, item) ==
    LET s == should_resize(self)
        i == get_active(s).val
    IN  [s EXCEPT !.filters[i] = BloomFilter_add(s.filters[i], item),
                  !.inserted = s.inserted + 1]

\* C15: every add leaves the chain, from the state the chain and the reference
\* chain share, exactly as the reference add leaves it: the same partitions
\* with the same contents and the same active partition; so the two chains
\* agree after each add of every sequence of adds.
C15_ThrottlePreserving ==
    [][\A item \in Items :
          AddA(item) => (~panicked' /\ a' = DynamicBloom_add_reference(a, item))]_vars

\* C15 witness: an add that skipped the saturation check (0 < expected / 10)
C15_Witness ==
    /\ op[1] = "a.add"
    /\ a.inserted = 1
    /\ a.expected \div 10 >= 1

-----------------------------------------------------------------------------
(* Claims about the bit array and the hash deriver, checked under SpecBloom *)

\* C16: the bit array has size * 8 bits from construction on; every add keeps
\* its length, leaves every true bit true, leaves the array unchanged when the
\* item was added before, and raises stored_items by exactly 1; the filter,
\* once constructed, is never replaced by one with fewer bits or items.
C16_StateOnlyGrows ==
    /\ [](bloom # <<>> => bits(bloom[1]) = bloom[1].size * 8)
    /\ [][bloom # <<>> =>
            /\ bloom' # <<>>
            /\ DOMAIN bloom'[1].array = DOMAIN bloom[1].array
            /\ bloom'[1].stored_items >= bloom[1].stored_items]_vars
    /\ [][\A item \in Items : Add(item) =>
            /\ \A i \in DOMAIN bloom[1].array : bloom[1].array[i] => bloom'[1].array[i]
            /\ item \in added => bloom'[1].array = bloom[1].array
            /\ bloom'[1].stored_items = bloom[1].stored_items + 1]_vars

\* C16 witness: an item added twice, the second add after another item's, on
\* a filter where the two items set different bits
C16_Witness ==
    /\ bloom # <<>>
    /\ bloom[1].k >= 1
    /\ bloom[1].stored_items = 3
    /\ added = Items
    /\ op[1] = "add"
    /\ indices(bloom[1], "x") # indices(bloom[1], "y")
    /\ \E i \in DOMAIN bloom[1].array : ~bloom[1].array[i]

\* the four base values of item are the halves of the two hash functions'
\* values, h1 and h2 being one of each
TwoAlgorithms(h, item) ==
    \/ h = <<_spooky_hash(item).lo, _spooky_hash(item).hi,
             _mmr3_hash(item).lo, _mmr3_hash(item).hi>>
    \/ h = <<_mmr3_hash(item).lo, _mmr3_hash(item).hi,
             _spooky_hash(item).lo, _spooky_hash(item).hi>>

\* C17: the four base values of compute_hashes come from the two hash
\* algorithms: (h1_lo, h1_hi) from one and (h2_lo, h2_hi) from the other, so
\* the third and fourth are those of the second algorithm whether or not they
\* equal the first and second.
C17_TwoAlgorithms ==
    (bloom # <<>> /\ bloom[1].k >= 3) =>
        \A item \in Items :
            TwoAlgorithms(SubSeq(compute_hashes(bloom[1], item), 1, 4), item)

-----------------------------------------------------------------------------
(* Claims about rotation in AgeFilter, checked under SpecAge *)

\* the slice at the back of the sequence
Newest(self) == self.slices.inner[Len(self.slices.inner)]

\* C18: every shift and every add_slice call, whatever hash_index h in
\* 0..k-1 it reads (0 included), returns without an arithmetic failure and
\* gives the new slice hash_index = (h - 1 + k) mod k, a value in 0..k-1,
\* h being the hash_index of the head (front) slice of the sequence at the
\* time of the call.
C18_HashIndexRotation ==
    [][(Shift \/ AddSlice) =>
          /\ ~panicked'
          /\ af.slices.inner # <<>>
          /\ LET h == Head(af.slices.inner).hash_index
             IN  Newest(af').hash_index = (h - 1 + af.num_hash) % af.num_hash
          /\ Newest(af').hash_index \in 0..(af.num_hash - 1)]_vars

\* an empty slice: no insert counted and every bit false
EmptySlice(s) == s.count = 0 /\ \A i \in DOMAIN s.data : ~s.data[i]

\* C19: every shift call appends exactly one new empty slice at the back; on
\* a sequence at capacity it removes exactly the front slice, so the length is
\* unchanged; the other slices keep their contents and order.
C19_ShiftAppendsOne ==
    [][Shift =>
          /\ ~panicked'
          /\ EmptySlice(Newest(af'))
          /\ af'.slices.inner =
                Append(IF is_full(af.slices) THEN Tail(af.slices.inner)
                       ELSE af.slices.inner,
                       Newest(af'))]_vars

\* C20: in every reachable state, after any sequence of shift, add_slice and
\* retire_slices calls, num_slices is the length of the slice sequence.
C20_NumSlicesIsLength ==
    af.num_slices = BoundedVecDeque_len(af.slices)

-----------------------------------------------------------------------------
(* Claims about retirement in AgeFilter, checked under SpecAge *)

\* no slice of self is eligible at the threshold ts: the sequence has
\* optimal_slices slices, or no slice is older than ts
NoneEligible(self, ts) ==
    \/ BoundedVecDeque_len(self.slices) = self.optimal_slices
    \/ \A n \in DOMAIN self.slices.inner : ~(self.slices.inner[n].timestamp < ts)

\* C21: every retire_slices call returns; called with no slice eligible it
\* leaves the slice sequence and num_slices unchanged; and a second call with
\* the same threshold, made right after it, would leave the filter as the
\* first call left it.
C21_RetireIdempotent ==
    [][Retire =>
          /\ ~panicked'
          /\ NoneEligible(af, now) =>
                /\ af'.slices.inner = af.slices.inner
                /\ af'.num_slices = af.num_slices
          /\ retire_slices(af', now, checked) = Ok(af')]_vars

\* the sequence s without the elements at the positions (from 1) in R
RECURSIVE Kept(_, _)
Kept(s, R) ==
    IF s = <<>> THEN <<>>
    ELSE Kept(SubSeq(s, 1, Len(s) - 1), R)
            \o (IF Len(s) \in R THEN <<>> ELSE <<s[Len(s)]>>)

\* the iterations of the loop of retire_slices that find a slice older than
\* ts: for each the index examined and the index given to remove
RECURSIVE retire_trace(_, _, _, _, _)
retire_trace(slices, i, removed, last, ts) ==
    IF i >= last THEN <<>>
    ELSE LET s == index(slices, i - removed)
         IN  IF s.ok /\ s.val.timestamp < ts
             THEN <<[examined |-> i - removed, removed |-> i]>>
                     \o retire_trace(remove(slices, i).self, i + 1, removed + 1, last, ts)
             ELSE <<>>

\* C22: every retire_slices call returns and removes only eligible slices:
\* each slice it examines and finds older than the threshold is the slice it
\* removes; the slices left are the slices before the call without some of
\* those that are strictly older than the threshold and lie at index
\* optimal_slices - 1 or beyond, so no slice that is not older than the
\* threshold is removed, and at least optimal_slices slices are left.
C22_RetireOnlyEligible ==
    [][Retire =>
          /\ ~panicked'
          /\ LET steps == retire_trace(af.slices, af.optimal_slices - 1, 0,
                                       af.num_slices - 1, now)
             IN  \A n \in DOMAIN steps : steps[n].examined = steps[n].removed
          /\ \E R \in SUBSET (af.optimal_slices..Len(af.slices.inner)) :
                /\ \A p \in R : af.slices.inner[p].timestamp < now
                /\ af'.slices.inner = Kept(af.slices.inner, R)
          /\ Len(af'.slices.inner) >= af.optimal_slices]_vars

-----------------------------------------------------------------------------
(* SpecWindow: an AgeBloom whose active_idx code of the crate has set, as  *)
(* tests::get_active_idx does, then used through add and get               *)

\* f.active_idx = n
SetActive(n) ==
    /\ ~panicked
    /\ op = <<"new">>
    /\ ageBloom' = [ageBloom EXCEPT !.active_idx = n]
    /\ op' = <<"active_idx", n>>
    /\ UNCHANGED <<addedAge, panicked, hashVars, bloomVars, dynVars, queueVars, ageVars>>

NextWindow ==
    \/ \E n \in 0..(Len(ageBloom.filters) - 1) : SetActive(n)
    \/ \E item \in Items : AgeAdd(item)
    \/ \E item \in Items : AgeGet(item)

SpecWindow == InitAgeBloom /\ [][NextWindow]_vars

\* C23: for every active_idx in 0..len-1, get_active_idx returns exactly k
\* indices, consecutive from active_idx and wrapping to 0 past the last
\* filter, each below len; and no add call indexes outside the filters.
C23_ActiveWindow ==
    /\ [](LET length == Len(ageBloom.filters)
              window == get_active_idx(ageBloom)
          IN  ageBloom.active_idx \in 0..(length - 1) =>
                 /\ Len(window) = ageBloom.k
                 /\ \A j \in DOMAIN window :
                       /\ window[j] = (ageBloom.active_idx + j - 1) % length
                       /\ window[j] < length)
    /\ [][\A item \in Items : AgeAdd(item) => ~panicked']_vars

-----------------------------------------------------------------------------
(* SpecQuery: an AgeBloom whose filters code of the crate has written to   *)
(* one by one, so that every pattern of filters reporting an item occurs,  *)
(* then asked through get                                                  *)

\* f.filters[i].add(&item), on a filter that holds nothing yet
FillSlice(i, item) ==
    /\ ~panicked
    /\ stored(ageBloom.filters[i + 1]) = 0
    /\ ageBloom' = [ageBloom EXCEPT !.filters[i + 1] = BloomFilter_add(@, item)]
    /\ op' = <<"filters.add", i, item>>
    /\ UNCHANGED <<addedAge, panicked, hashVars, bloomVars, dynVars, queueVars, ageVars>>

NextQuery ==
    \/ \E i \in 0..(Len(ageBloom.filters) - 1) : FillSlice(i, QueryItem)
    \/ \E item \in Items : AgeGet(item)

SpecQuery == InitAgeBloom /\ [][NextQuery]_vars

\* the filters (counted from 0) that report item
Hits(self, item) ==
    {i \in 0..(Len(self.filters) - 1) : BloomFilter_get(self.filters[i + 1], item)}

\* C24: for every pattern of filters reporting the item, get ends after a
\* bounded number of filter reads (at most two for each of the k + l filters)
\* and reads no filter index outside 0..k+l-1.
C24_GetTerminatesInBounds ==
    \A item \in Items :
        /\ AgeBloom_get(ageBloom, item).ok
        /\ get_steps(ageBloom, item, ageBloom.l, 0, 0) <= 2 * (ageBloom.k + ageBloom.l)

\* C24 witness: a get that went down the filters and up again
C24_Witness ==
    /\ op = <<"get", QueryItem, TRUE>>
    /\ get_steps(ageBloom, QueryItem, ageBloom.l, 0, 0) >= 5

\* some k consecutive filters all report item
HasRun(self, item) ==
    \E s \in 0..(Len(self.filters) - self.k) :
        \A i \in s..(s + self.k - 1) : i \in Hits(self, item)

\* C25: for every pattern of filters reporting the item, get returns true
\* exactly when k consecutive filters all report the item.
C25_WindowedQuery ==
    /\ \A item \in Items : AgeBloom_get(ageBloom, item) = Ok(HasRun(ageBloom, item))
    /\ op[1] = "get" => (~panicked /\ op[3] = HasRun(ageBloom, op[2]))

\* C25 witness: get returned false although four or more filters report the
\* item, no three of them consecutive
C25_Witness ==
    /\ op = <<"get", QueryItem, FALSE>>
    /\ Cardinality(Hits(ageBloom, QueryItem)) >= 4

====
